---- MODULE Spec2Model ----
\* A model of sprungknoedl/minions: the role based Guard (guard.go) and the
\* Templates store (formats.go).  Strings are sequences of one-character
\* strings, so that trimming and concatenation are computed, not assumed.
EXTENDS Integers, Sequences, FiniteSets, TLC

\* Guard:     g      the Guard struct (unauthorized, forbidden, principal)
\*            inv    the last request served by a Protect-wrapped handler
\*            called the handler calls that request made, in order
\*            rec    the response recorder of that request
\* Templates: disk   the files beneath the source directory
\*            dir, reload, tpl   the fields of the Templates struct
\*            procs  the requests running HTML concurrently, step by step
\*            last   the last Load or HTML call that returned
\*            first  the registry built by the first successful load
\* Binding:   br     a BindingResult (a map from field to message, or nil)
\*            lastBr the last call made on br
VARIABLES g, inv, called, rec,
          disk, dir, reload, tpl, procs, last, first,
          br, lastBr

guardVars == <<g, inv, called, rec>>
tplVars   == <<disk, dir, reload, tpl, procs, last, first>>
bindVars  == <<br, lastBr>>
vars      == <<g, inv, called, rec,
               disk, dir, reload, tpl, procs, last, first,
               br, lastBr>>

\* ------------------------------------------------------------------ bounds
MaxRoles == 2          \* longest role list handed to Protect
NumProcs == 2          \* requests running HTML at the same time
MaxFields == 2         \* form fields a BindingResult can name

\* ------------------------------------------------------------ guard: data
StatusOK           == 200
StatusUnauthorized == 401
StatusForbidden    == 403

Roles    == {"admin", "user"}
\* Each request arrives with its own response writer.
Conns    == {[w |-> "w1", r |-> "r1"], [w |-> "w2", r |-> "r2"]}

RoleLists == UNION {[1..n -> Roles] : n \in 0..MaxRoles}

SeqRange(s) == {s[i] : i \in 1..Len(s)}

\* Anonymous{}: never authenticated, holds no role.
Anonymous == [id |-> "anonymous", authenticated |-> FALSE,
              hasAnyRole |-> "never", held |-> {}]

\* TestUser: ID, Authenticated and HasAnyRole are caller supplied functions.
\* FnHasAnyRole is one of: constant false, constant true, or "one of the
\* requested roles is among the roles I hold".
TestUsers == [id : {"test"}, authenticated : BOOLEAN,
              hasAnyRole : {"never", "always"}, held : {{}}]
             \cup
             [id : {"test"}, authenticated : BOOLEAN,
              hasAnyRole : {"holds"}, held : SUBSET Roles \ {{}}]

Principals == {Anonymous} \cup TestUsers

Authenticated(p) == p.authenticated

HasAnyRole(p, roles) ==
    CASE p.hasAnyRole = "never"  -> FALSE
      [] p.hasAnyRole = "always" -> TRUE
      [] p.hasAnyRole = "holds"  -> SeqRange(roles) \cap p.held # {}

\* httptest.NewRecorder(): status 200 until a header is written, empty body.
NewRecorder == [code |-> StatusOK, wroteHeader |-> FALSE, body |-> <<>>]

Unauthorized == <<"U","n","a","u","t","h","o","r","i","z","e","d">>
Forbidden    == <<"F","o","r","b","i","d","d","e","n">>

\* http.Error(w, error, code): WriteHeader(code), then Fprintln(w, error).
HttpError(w, error, code) ==
    [code        |-> IF w.wroteHeader THEN w.code ELSE code,
     wroteHeader |-> TRUE,
     body        |-> w.body \o error \o <<"\n">>]

\* The handler values a guard can hold.  "default401"/"default403" are the
\* closures NewGuard installs; fn401/fn403/fn200 are caller handlers that
\* record that they ran and write nothing (as in guard_test.go).
UnauthorizedFns == {"fn401"}
ForbiddenFns    == {"fn403"}
Handlers        == {"fn200"}

\* faulty variant: the two default behaviours installed the wrong way round
NewGuard_Swapped == [unauthorized |-> "default403",
                     forbidden    |-> "default401",
                     principal    |-> "anonymous"]

NewGuard == [unauthorized |-> "default401",
             forbidden    |-> "default403",
             principal    |-> "anonymous"]

SetPrincipalFn(guard, fn)    == [guard EXCEPT !.principal = fn]

\* faulty variant: the setter writes the forbidden field as well
SetUnauthorizedFn_Both(guard, fn) ==
    [guard EXCEPT !.unauthorized = fn, !.forbidden = fn]

SetUnauthorizedFn(guard, fn) == [guard EXCEPT !.unauthorized = fn]
SetForbiddenFn(guard, fn)    == [guard EXCEPT !.forbidden = fn]

\* g.principal(r): the default lookup returns Anonymous{}; a caller supplied
\* lookup returns whatever principal it finds for the request (p).
Lookup(guard, p) == IF guard.principal = "anonymous" THEN Anonymous ELSE p

\* Running one handler value against writer state w.
RunHandler(h, w) ==
    CASE h = "default401" -> HttpError(w, Unauthorized, StatusUnauthorized)
      [] h = "default403" -> HttpError(w, Forbidden, StatusForbidden)
      [] OTHER            -> w

\* faulty variant: the authentication test is missing
ProtectCalls_NoAuthCheck(guard, fn, roles, p, w, r) ==
    IF ~HasAnyRole(p, roles)
    THEN <<[h |-> guard.forbidden, w |-> w, r |-> r]>>
    ELSE <<[h |-> fn, w |-> w, r |-> r]>>

\* faulty variant: the return after g.forbidden is missing, so fn runs as well
ProtectCalls_FallThrough(guard, fn, roles, p, w, r) ==
    IF ~Authenticated(p)
    THEN <<[h |-> guard.unauthorized, w |-> w, r |-> r]>>
    ELSE IF ~HasAnyRole(p, roles)
         THEN <<[h |-> guard.forbidden, w |-> w, r |-> r],
                [h |-> fn, w |-> w, r |-> r]>>
         ELSE <<[h |-> fn, w |-> w, r |-> r]>>

\* faulty variant: the role test is inverted
ProtectCalls_InvertedRole(guard, fn, roles, p, w, r) ==
    IF ~Authenticated(p)
    THEN <<[h |-> guard.unauthorized, w |-> w, r |-> r]>>
    ELSE IF HasAnyRole(p, roles)
         THEN <<[h |-> guard.forbidden, w |-> w, r |-> r]>>
         ELSE <<[h |-> fn, w |-> w, r |-> r]>>

\* faulty variant: an empty role list is treated as "no role required"
ProtectCalls_EmptyAllows(guard, fn, roles, p, w, r) ==
    IF ~Authenticated(p)
    THEN <<[h |-> guard.unauthorized, w |-> w, r |-> r]>>
    ELSE IF roles # <<>> /\ ~HasAnyRole(p, roles)
         THEN <<[h |-> guard.forbidden, w |-> w, r |-> r]>>
         ELSE <<[h |-> fn, w |-> w, r |-> r]>>

\* The closure returned by Protect(fn, roles...), run on (w, r) with
\* principal p: the sequence of handler calls it makes.
ProtectCalls(guard, fn, roles, p, w, r) ==
    IF ~Authenticated(p)
    THEN <<[h |-> guard.unauthorized, w |-> w, r |-> r]>>
    ELSE IF ~HasAnyRole(p, roles)
         THEN <<[h |-> guard.forbidden, w |-> w, r |-> r]>>
         ELSE <<[h |-> fn, w |-> w, r |-> r]>>

RECURSIVE RunCalls(_, _)
RunCalls(cs, w) ==
    IF cs = <<>> THEN w ELSE RunCalls(Tail(cs), RunHandler(Head(cs).h, w))

\* --------------------------------------------------------- guard: actions
\* inv records the last request: the guard as it was configured when the
\* request ran, the Protect arguments, the principal found, writer, request.
NoInv == [guard |-> NewGuard, fn |-> "none", roles |-> <<>>, p |-> Anonymous,
          w |-> "none", r |-> "none", served |-> FALSE]

InitGuard ==
    /\ g = NewGuard
    /\ inv = NoInv
    /\ called = <<>>
    /\ rec = NewRecorder

PrincipalFn ==
    /\ g' = SetPrincipalFn(g, "custom")
    /\ UNCHANGED <<inv, called, rec>>

UnauthorizedFn ==
    /\ \E fn \in UnauthorizedFns : g' = SetUnauthorizedFn(g, fn)
    /\ UNCHANGED <<inv, called, rec>>

ForbiddenFn ==
    /\ \E fn \in ForbiddenFns : g' = SetForbiddenFn(g, fn)
    /\ UNCHANGED <<inv, called, rec>>

\* One request served by a Protect-wrapped handler, on a fresh recorder.
Serve ==
    \E fn \in Handlers, roles \in RoleLists, q \in Principals, c \in Conns :
        LET p  == Lookup(g, q)
            cs == ProtectCalls(g, fn, roles, p, c.w, c.r)
        IN /\ inv' = [guard |-> g, fn |-> fn, roles |-> roles, p |-> p,
                      w |-> c.w, r |-> c.r, served |-> TRUE]
           /\ called' = cs
           /\ rec' = RunCalls(cs, NewRecorder)
           /\ UNCHANGED g

\* ---------------------------------------------------------- binding: data
\* The field names and messages a form binding may record.  The empty
\* string is a field name like any other.
FieldNames == <<"", "name", "email">>
Fields     == {FieldNames[i] : i \in 1..MaxFields}
Messages   == {"required", "invalid"}

\* BindingResult is map[string]string: nil (the zero value) or a map.
NilBinding   == [nil |-> TRUE, m |-> <<>>]
EmptyBinding == [nil |-> FALSE, m |-> <<>>]
Bindings     == {[nil |-> FALSE, m |-> f] :
                   f \in UNION {[S -> Messages] : S \in SUBSET Fields}}

\* len(br): a nil map has length 0.
MapLen(b) == Cardinality(DOMAIN b.m)

\* BindingResult.Valid
Valid(b) == MapLen(b) = 0

\* faulty variant: a field that already has a message keeps it
FailMap_KeepFirst(b, field, err) ==
    IF field \in DOMAIN b.m THEN b ELSE [b EXCEPT !.m = (field :> err) @@ b.m]

\* BindingResult.Fail on a non-nil map: br[field] = err.
FailMap(b, field, err) == [b EXCEPT !.m = (field :> err) @@ b.m]

\* BindingResult.Include on a non-nil map: Fail for every entry of other,
\* in some order of the range loop.
RECURSIVE IncludeMap(_, _)
IncludeMap(b, other) ==
    IF DOMAIN other = {} THEN b
    ELSE LET field == CHOOSE f \in DOMAIN other : TRUE
             rest  == [f \in DOMAIN other \ {field} |-> other[f]]
         IN IncludeMap(FailMap(b, field, other[field]), rest)

\* lastBr: the call, its arguments, the map as it was before the call, and
\* whether the call panicked instead of returning.
NoBr == [op |-> "none", field |-> "", err |-> "", other |-> <<>>,
         before |-> <<>>, panicked |-> FALSE]

IdleBind == br = EmptyBinding /\ lastBr = NoBr

IdleTpl ==
    /\ disk = <<>> /\ dir = <<>> /\ reload = FALSE /\ tpl = <<>>
    /\ procs = <<>> /\ last = <<>> /\ first = <<>>

Init == InitGuard /\ IdleTpl /\ IdleBind

Next ==
    \/ PrincipalFn /\ UNCHANGED <<tplVars, bindVars>>
    \/ UnauthorizedFn /\ UNCHANGED <<tplVars, bindVars>>
    \/ ForbiddenFn /\ UNCHANGED <<tplVars, bindVars>>
    \/ Serve /\ UNCHANGED <<tplVars, bindVars>>

Spec == Init /\ [][Next]_vars

\* -------------------------------------------------------- templates: data
\* The nil *template.Template.
Nil == [nil |-> TRUE, set |-> <<>>, escaped |-> FALSE, complete |-> FALSE]

\* The files that can exist beneath the source directory, by their path
\* relative to it, in the lexical order filepath.Walk visits them.
WalkOrder == << <<".","a">>, <<"a">>, <<"s","/","b">> >>
RelPaths  == SeqRange(WalkOrder)

\* What is at a path: nothing, a template that parses, a file whose
\* template text does not parse, a file ioutil.ReadFile cannot read.
FileKinds == {"ok", "unparsable", "unreadable"}
NoFiles   == [f \in RelPaths |-> "absent"]

\* The dir argument of NewTemplates.
Dirs == {<<"t">>, <<"t","/">>}

\* strings.TrimPrefix
TrimPrefix(str, prefix) ==
    IF Len(str) >= Len(prefix) /\ SubSeq(str, 1, Len(prefix)) = prefix
    THEN SubSeq(str, Len(prefix) + 1, Len(str))
    ELSE str

\* strings.TrimLeft: drops every leading character that is in the cutset.
RECURSIVE TrimLeft(_, _)
TrimLeft(str, cutset) ==
    IF str # <<>> /\ Head(str) \in cutset
    THEN TrimLeft(Tail(str), cutset)
    ELSE str

\* filepath.Clean, as far as the roots of Dirs need it: no trailing slash.
Clean(path) ==
    IF Len(path) > 1 /\ path[Len(path)] = "/"
    THEN SubSeq(path, 1, Len(path) - 1)
    ELSE path

\* The path filepath.Walk hands to the callback: filepath.Join(root, names).
WalkPath(root, rel) == Clean(root) \o <<"/">> \o rel

\* The template name Load derives from a walked path.
TplName(root, path) == TrimLeft(TrimPrefix(path, root), {".", "/"})

NameOf(root, rel) == TplName(root, WalkPath(root, rel))

\* template.New("").Funcs(tpl.funcmap): an empty name space.  set maps a
\* template name to the file whose text it was parsed from; escaped is
\* html/template's flag that forbids Parse after the first Execute;
\* complete records that the walk that filled it ran to its end.
NewTemplate == [nil |-> FALSE, set |-> <<>>, escaped |-> FALSE, complete |-> FALSE]

\* The callback Load passes to filepath.Walk, for one file: the new value
\* of tpl.tpl and the error returned.
WalkFn(reg, root, rel, kind) ==
    IF kind = "unreadable" THEN [tpl |-> reg, err |-> "read"]
    ELSE IF reg = Nil THEN [tpl |-> Nil, err |-> "panic"]
    ELSE IF reg.escaped \/ kind = "unparsable" THEN [tpl |-> Nil, err |-> "parse"]
    ELSE [tpl |-> [reg EXCEPT !.set = (NameOf(root, rel) :> rel) @@ reg.set],
          err |-> "nil"]

\* The files on disk, in walk order.
Walked(dsk) == SelectSeq(WalkOrder, LAMBDA f : dsk[f] # "absent")

\* filepath.Walk over the files fs, stopping at the first error.
RECURSIVE WalkFiles(_, _, _, _)
WalkFiles(reg, root, dsk, fs) ==
    IF fs = <<>> THEN [tpl |-> reg, err |-> "nil"]
    ELSE LET one == WalkFn(reg, root, Head(fs), dsk[Head(fs)])
         IN IF one.err # "nil" THEN one
            ELSE WalkFiles(one.tpl, root, dsk, Tail(fs))

\* The end of a walk: the registry is complete when no error stopped the
\* walk and the name of every file of the directory is in it.
Finish(res, root, dsk) ==
    IF /\ res.err = "nil"
       /\ ~res.tpl.nil
       /\ \A f \in RelPaths : dsk[f] # "absent" => NameOf(root, f) \in DOMAIN res.tpl.set
    THEN [res EXCEPT !.tpl.complete = TRUE]
    ELSE res

\* Templates.Load: resets tpl.tpl, walks, returns (tpl, err).
LoadResult(root, dsk) ==
    Finish(WalkFiles(NewTemplate, root, dsk, Walked(dsk)), root, dsk)

\* tpl.tpl.ExecuteTemplate(w, name, data): the file whose parsed text is
\* rendered, or the error.
Execute(reg, name) ==
    IF reg = Nil THEN [out |-> <<>>, err |-> "panic"]
    ELSE IF name \in DOMAIN reg.set THEN [out |-> reg.set[name], err |-> "nil"]
    ELSE [out |-> <<>>, err |-> "undefined"]

\* html/template marks the name space escaped on every ExecuteTemplate.
Escaped(reg) == IF reg = Nil THEN Nil ELSE [reg EXCEPT !.escaped = TRUE]

\* The names the concurrent requests ask for.
ConcNames == {<<"a">>, <<"s","/","b">>}

\* The names a caller may ask HTML to render.
RenderNames == RelPaths \cup {<<"b">>, <<"/","a">>}

\* ----------------------------------------------------- templates: actions
NoLast  == [op |-> "none", name |-> <<>>, loaded |-> FALSE, err |-> "nil",
            executed |-> FALSE, used |-> Nil, out |-> <<>>]
NoFirst == [done |-> FALSE, set |-> <<>>, files |-> {}, explicit |-> FALSE]

Files(dsk) == {f \in RelPaths : dsk[f] # "absent"}

\* first remembers the registry of the first load that returned no error.
NoteLoad(res, explicitCall) ==
    IF res.err = "nil" /\ ~first.done
    THEN [done |-> TRUE, set |-> res.tpl.set, files |-> Files(disk),
          explicit |-> first.explicit \/ explicitCall]
    ELSE [first EXCEPT !.explicit = @ \/ explicitCall]

InitTemplates ==
    /\ disk = NoFiles
    /\ dir \in Dirs
    /\ reload \in BOOLEAN
    /\ tpl = Nil
    /\ procs = <<>>
    /\ last = NoLast
    /\ first = NoFirst

\* A file appears beneath the source directory.
AddFile ==
    \E f \in RelPaths, k \in FileKinds :
        /\ disk[f] = "absent"
        /\ disk' = [disk EXCEPT ![f] = k]
        /\ last' = NoLast
        /\ UNCHANGED <<dir, reload, tpl, procs, first>>

\* An explicit call of Templates.Load.
Load ==
    LET res == LoadResult(dir, disk)
    IN /\ tpl' = res.tpl
       /\ last' = [op |-> "Load", name |-> <<>>, loaded |-> TRUE,
                   err |-> res.err, executed |-> FALSE, used |-> Nil,
                   out |-> <<>>]
       /\ first' = NoteLoad(res, TRUE)
       /\ UNCHANGED <<disk, dir, reload, procs>>

\* One call of Templates.HTML, from entry to return.
HTML ==
    \E name \in RenderNames :
        LET doLoad == tpl = Nil \/ reload
            res    == IF doLoad THEN LoadResult(dir, disk)
                      ELSE [tpl |-> tpl, err |-> "nil"]
            ex     == Execute(res.tpl, name)
        IN /\ tpl' = IF res.err # "nil" THEN res.tpl ELSE Escaped(res.tpl)
           /\ last' = IF res.err # "nil"
                      THEN [op |-> "HTML", name |-> name, loaded |-> doLoad,
                            err |-> res.err, executed |-> FALSE,
                            used |-> Nil, out |-> <<>>]
                      ELSE [op |-> "HTML", name |-> name, loaded |-> doLoad,
                            err |-> ex.err, executed |-> TRUE,
                            used |-> res.tpl, out |-> ex.out]
           /\ first' = IF doLoad THEN NoteLoad(res, FALSE) ELSE first
           /\ UNCHANGED <<disk, dir, reload, procs>>

NextTemplates ==
    \/ AddFile /\ UNCHANGED <<guardVars, bindVars>>
    \/ Load /\ UNCHANGED <<guardVars, bindVars>>
    \/ HTML /\ UNCHANGED <<guardVars, bindVars>>

InitSeq == InitGuard /\ InitTemplates /\ IdleBind

SpecTemplates == InitSeq /\ [][NextTemplates]_vars

\* ----------------------------------------- templates: concurrent requests
\* HTML run by several requests at once on one store.  Each request takes
\* the statements of HTML and Load one at a time; the store has no lock, so
\* the steps of different requests interleave freely.  The disk does not
\* change while they run.
Procs == 1..NumProcs

Idle == [pc |-> "idle", name |-> <<>>, todo |-> <<>>, res |-> "none",
         executed |-> FALSE, partial |-> FALSE]

InitConc ==
    /\ InitGuard
    /\ IdleBind
    /\ disk \in [RelPaths -> {"absent"} \cup FileKinds]
    /\ dir = <<"t">>
    /\ reload \in BOOLEAN
    /\ tpl = Nil
    /\ procs = [p \in Procs |-> Idle]
    /\ last = NoLast
    /\ first = NoFirst

\* HTML entered: the test "tpl.tpl == nil || tpl.reload".
Enter(p) ==
    /\ procs[p].pc = "idle"
    /\ \E name \in ConcNames :
         procs' = [procs EXCEPT ![p] =
                     [Idle EXCEPT !.name = name,
                                  !.pc = IF tpl = Nil \/ reload THEN "load" ELSE "exec"]]
    /\ UNCHANGED <<disk, dir, reload, tpl, last, first>>

\* What a request does once its walk has no file left or was stopped.
AfterWalk(pr, res, rest) ==
    IF res.err = "panic" THEN [pr EXCEPT !.pc = "done", !.res = "panic", !.todo = <<>>]
    ELSE IF res.err # "nil" THEN [pr EXCEPT !.pc = "done", !.res = res.err, !.todo = <<>>]
    ELSE IF rest = <<>> THEN [pr EXCEPT !.pc = "exec", !.todo = <<>>]
    ELSE [pr EXCEPT !.pc = "walk", !.todo = rest]

\* Load's first statement: tpl.tpl = template.New("").Funcs(tpl.funcmap).
Reset(p) ==
    /\ procs[p].pc = "load"
    /\ LET fs  == Walked(disk)
           res == [tpl |-> NewTemplate, err |-> "nil"]
           fin == IF fs = <<>> THEN Finish(res, dir, disk) ELSE res
       IN /\ tpl' = fin.tpl
          /\ procs' = [procs EXCEPT ![p] = AfterWalk(procs[p], fin, fs)]
    /\ UNCHANGED <<disk, dir, reload, last, first>>

\* The walk callback on the next file, reading and writing tpl.tpl.
WalkStep(p) ==
    /\ procs[p].pc = "walk"
    /\ LET f    == Head(procs[p].todo)
           rest == Tail(procs[p].todo)
           one  == WalkFn(tpl, dir, f, disk[f])
           fin  == IF rest = <<>> THEN Finish(one, dir, disk) ELSE one
       IN /\ tpl' = fin.tpl
          /\ procs' = [procs EXCEPT ![p] = AfterWalk(procs[p], fin, rest)]
    /\ UNCHANGED <<disk, dir, reload, last, first>>

\* tpl.tpl.ExecuteTemplate(w, name, data) on whatever tpl.tpl is now.
Exec(p) ==
    /\ procs[p].pc = "exec"
    /\ LET ex == Execute(tpl, procs[p].name)
       IN procs' = [procs EXCEPT ![p] =
                      [@ EXCEPT !.pc = "done", !.res = ex.err,
                                !.executed = TRUE,
                                !.partial = tpl.nil \/ ~tpl.complete]]
    /\ tpl' = Escaped(tpl)
    /\ UNCHANGED <<disk, dir, reload, last, first>>

\* HTML returned; the request is over.
Return(p) ==
    /\ procs[p].pc = "done"
    /\ procs' = [procs EXCEPT ![p] = Idle]
    /\ UNCHANGED <<disk, dir, reload, tpl, last, first>>

NextConc ==
    \/ \E p \in Procs : Enter(p) /\ UNCHANGED <<guardVars, bindVars>>
    \/ \E p \in Procs : Reset(p) /\ UNCHANGED <<guardVars, bindVars>>
    \/ \E p \in Procs : WalkStep(p) /\ UNCHANGED <<guardVars, bindVars>>
    \/ \E p \in Procs : Exec(p) /\ UNCHANGED <<guardVars, bindVars>>
    \/ \E p \in Procs : Return(p) /\ UNCHANGED <<guardVars, bindVars>>

SpecConcurrent == InitConc /\ [][NextConc]_vars

\* ------------------------------------------------------- binding: actions
InitBind ==
    /\ InitGuard
    /\ IdleTpl
    /\ br \in {NilBinding, EmptyBinding}
    /\ lastBr = NoBr

\* br.Fail(field, err); an assignment to an entry of a nil map panics.
Fail ==
    \E field \in Fields, err \in Messages :
        /\ br' = IF br.nil THEN br ELSE FailMap(br, field, err)
        /\ lastBr' = [op |-> "Fail", field |-> field, err |-> err,
                      other |-> <<>>, before |-> br.m,
                      panicked |-> br.nil]

\* br.Include(other); on a nil receiver the first Fail panics.
Include ==
    \E other \in Bindings :
        /\ br' = IF br.nil THEN br ELSE IncludeMap(br, other.m)
        /\ lastBr' = [op |-> "Include", field |-> "", err |-> "",
                      other |-> other.m, before |-> br.m,
                      panicked |-> br.nil /\ DOMAIN other.m # {}]

NextBind ==
    \/ Fail /\ UNCHANGED <<guardVars, tplVars>>
    \/ Include /\ UNCHANGED <<guardVars, tplVars>>

SpecBinding == InitBind /\ [][NextBind]_vars

\* ---------------------------------------------------------- guard: claims
CalledSet == {called[i].h : i \in 1..Len(called)}

\* C1: a request whose principal is not authenticated runs the configured
\* unauthenticated behaviour and nothing else, whatever the roles asked for
\* and whatever HasAnyRole would answer.
C1_UnauthenticatedDenied ==
    (inv.served /\ ~Authenticated(inv.p)) =>
        /\ called = <<[h |-> inv.guard.unauthorized, w |-> inv.w, r |-> inv.r]>>
        /\ inv.fn \notin CalledSet
        /\ inv.guard.forbidden \notin CalledSet

C1_Witness ==
    /\ inv.served /\ ~Authenticated(inv.p)
    /\ inv.p.hasAnyRole = "always"
    /\ Len(inv.roles) = 2
    /\ inv.guard.principal = "custom"
    /\ inv.guard.unauthorized = "fn401"

\* C2: a request whose principal is authenticated but holds none of the
\* requested roles runs the configured forbidden behaviour and nothing else.
C2_ForbiddenDenied ==
    (inv.served /\ Authenticated(inv.p) /\ ~HasAnyRole(inv.p, inv.roles)) =>
        /\ called = <<[h |-> inv.guard.forbidden, w |-> inv.w, r |-> inv.r]>>
        /\ inv.fn \notin CalledSet
        /\ inv.guard.unauthorized \notin CalledSet

C2_Witness ==
    /\ inv.served /\ inv.p.authenticated
    /\ inv.p.hasAnyRole = "holds" /\ inv.p.held = {"admin"}
    /\ inv.roles = <<"user", "user">>
    /\ inv.guard.forbidden = "fn403"
    /\ called = <<[h |-> "fn403", w |-> inv.w, r |-> inv.r]>>

\* C3: a request whose principal is authenticated and holds one of the
\* requested roles runs the wrapped handler exactly once, on the same
\* writer and request, and runs neither of the guard's own behaviours (so
\* the guard itself writes nothing to the response).
C3_AllowedDelegates ==
    (inv.served /\ Authenticated(inv.p) /\ HasAnyRole(inv.p, inv.roles)) =>
        /\ called = <<[h |-> inv.fn, w |-> inv.w, r |-> inv.r]>>
        /\ inv.guard.unauthorized \notin CalledSet
        /\ inv.guard.forbidden \notin CalledSet
        /\ rec = NewRecorder

C3_Witness ==
    /\ inv.served /\ inv.p.authenticated
    /\ inv.p.hasAnyRole = "holds" /\ inv.p.held = {"admin"}
    /\ inv.roles = <<"user", "admin">>
    /\ inv.w = "w2" /\ inv.r = "r2"
    /\ called = <<[h |-> "fn200", w |-> "w2", r |-> "r2"]>>

\* C4 as claimed: with no role requested, every authenticated principal
\* reaches the wrapped handler and the forbidden behaviour does not run.
C4_EmptyRolesAllowAll ==
    (inv.served /\ Authenticated(inv.p) /\ inv.roles = <<>>) =>
        /\ called = <<[h |-> inv.fn, w |-> inv.w, r |-> inv.r]>>
        /\ inv.guard.forbidden \notin CalledSet

\* C4 as amended: with no role requested, an authenticated principal
\* reaches the wrapped handler exactly when its own HasAnyRole answers true
\* for the empty role list; when it answers false (a principal that looks
\* the requested roles up among those it holds, or a constant-false one)
\* the forbidden behaviour runs and the wrapped handler does not.
C4_EmptyRolesAskPrincipal ==
    (inv.served /\ Authenticated(inv.p) /\ inv.roles = <<>>) =>
        IF inv.p.hasAnyRole = "always"
        THEN called = <<[h |-> inv.fn, w |-> inv.w, r |-> inv.r]>>
        ELSE called = <<[h |-> inv.guard.forbidden, w |-> inv.w, r |-> inv.r]>>

C4_Witness ==
    /\ inv.served /\ inv.p.authenticated /\ inv.roles = <<>>
    /\ inv.p.hasAnyRole = "holds" /\ inv.p.held = Roles
    /\ called = <<[h |-> inv.guard.forbidden, w |-> inv.w, r |-> inv.r]>>

\* C5: a guard on which no configuration call was made denies every
\* request: the wrapped handler does not run, the status is 401 and the
\* body is "Unauthorized" followed by one newline.
C5_DefaultGuardDenies ==
    (inv.served /\ inv.guard = NewGuard) =>
        /\ inv.fn \notin CalledSet
        /\ Len(called) = 1
        /\ rec.code = 401
        /\ rec.body = <<"U","n","a","u","t","h","o","r","i","z","e","d","\n">>

C5_Witness ==
    /\ inv.served /\ inv.guard = NewGuard
    /\ Len(inv.roles) = 2
    /\ rec.code = 401

\* C6: while ForbiddenFn has not been called, a request of an authenticated
\* principal without a requested role gets status 403 and the body
\* "Forbidden" followed by one newline; and a call of PrincipalFn or of
\* UnauthorizedFn leaves the forbidden behaviour as it was.
C6_DefaultForbiddenKept ==
    /\ []((inv.served /\ inv.guard.forbidden = "default403"
           /\ Authenticated(inv.p) /\ ~HasAnyRole(inv.p, inv.roles)) =>
             /\ rec.code = 403
             /\ rec.body = <<"F","o","r","b","i","d","d","e","n","\n">>)
    /\ [][(g.principal # g'.principal \/ g.unauthorized # g'.unauthorized)
            => g'.forbidden = g.forbidden]_vars

C6_Witness ==
    /\ inv.served /\ inv.guard.forbidden = "default403"
    /\ inv.guard.principal = "custom" /\ inv.guard.unauthorized = "fn401"
    /\ inv.p.authenticated /\ inv.p.hasAnyRole = "never"
    /\ rec.code = 403

\* ------------------------------------------------------ templates: claims
\* The registry maps the name derived from file f to f's own parsed text.
Renders(reg, f) ==
    /\ NameOf(dir, f) \in DOMAIN reg.set
    /\ reg.set[NameOf(dir, f)] = f

\* C7: in a run of HTML calls and file additions only: with reload off, a
\* render after the first successful load uses the registry that load
\* built, and no file added since is in it; with reload on, a render whose
\* load succeeded has every file now on disk registered under its name and
\* rendering as itself.
C7_ReloadSeesNewFiles ==
    /\ (~reload /\ first.done /\ ~first.explicit /\ last.op = "HTML") =>
          /\ last.executed
          /\ last.used.set = first.set
          /\ \A f \in Files(disk) \ first.files :
                \A n \in DOMAIN last.used.set : last.used.set[n] # f
    /\ (reload /\ ~first.explicit /\ last.op = "HTML" /\ last.executed) =>
          \A f \in Files(disk) : Renders(last.used, f)

\* C8: a render that executes a template does so against a registry whose
\* load ran to its end; a failed load leaves the store unloaded or complete.
C8_NoPartialRegistryRendered ==
    (last.op = "HTML" /\ last.executed) => last.used.complete

\* C10: after a Load that returned no error every file beneath the source
\* directory is registered under its derived name and renders as itself,
\* and two files never share a name.
C10_EveryFileRegistered ==
    (last.op = "Load" /\ last.err = "nil") =>
        /\ \A f \in Files(disk) : Renders(tpl, f)
        /\ \A f1, f2 \in Files(disk) :
              f1 # f2 => NameOf(dir, f1) # NameOf(dir, f2)

\* C9: with reload on, no request running HTML beside others executes a
\* template against a registry that is reset but not yet filled again, nor
\* against a nil registry.
C9_NoPartialRegistrySeen ==
    reload => \A p \in Procs :
        (procs[p].pc = "done" /\ procs[p].executed) =>
            (~procs[p].partial /\ procs[p].res # "panic")

\* -------------------------------------------------------- binding: claims
\* C11: under any sequence of Fail and Include calls, Valid() is true
\* exactly when the mapping is empty; after a Fail(field, msg) that
\* returned, Valid() is false and the mapping holds msg for field, whatever
\* it held before; after an Include(other) that returned, the receiver
\* holds every field/message pair of other; no call removes a field, and
\* once Valid() is false it stays false.
C11_BindingResult ==
    /\ [](Valid(br) <=> br.m = <<>>)
    /\ []((lastBr.op = "Fail" /\ ~lastBr.panicked) =>
            /\ ~Valid(br)
            /\ lastBr.field \in DOMAIN br.m
            /\ br.m[lastBr.field] = lastBr.err)
    /\ []((lastBr.op = "Include" /\ ~lastBr.panicked) =>
            \A f \in DOMAIN lastBr.other :
                f \in DOMAIN br.m /\ br.m[f] = lastBr.other[f])
    /\ [][/\ DOMAIN br.m \subseteq DOMAIN br'.m
          /\ (~Valid(br) => ~Valid(br'))]_vars

\* A Fail that replaced the message a field already had, on a result that
\* also holds another field.
C11_Witness ==
    /\ lastBr.op = "Fail" /\ ~lastBr.panicked
    /\ lastBr.field = "" /\ lastBr.err = "invalid"
    /\ lastBr.before = ("" :> "required") @@ ("name" :> "required")
    /\ br.m = ("" :> "invalid") @@ ("name" :> "required")

====
